---- MODULE Spec2Model ----
(***************************************************************************)
(* Model of the mock server: the request validation pipeline of handle     *)
(* (security, content type / body, required parameters), the mock CRUD     *)
(* section it runs under Store.mu, and the JSON file behind the Store.     *)
(***************************************************************************)
EXTENDS Integers, Sequences, FiniteSets, TLC

\* Number of requests that may be in flight at the same time (one goroutine each).
MaxReq == 2

Requests == 1..MaxReq

-----------------------------------------------------------------------------
(* Go values held in a record (map[string]any) and their JSON encoding.     *)

\* A value of type `any`: t is its dynamic type, n its number (or the length
\* of an array), s its characters.
GoValue(t, n, s) == [t |-> t, n |-> n, s |-> s]
\* A number decoded from JSON: encoding/json decodes every number into float64.
Flt(n) == GoValue("float64", n, << >>)
\* A Go int, as produced by len(list) + 1.
GoInt(n) == GoValue("int", n, << >>)
Str(s) == GoValue("string", 0, s)
GoBool == GoValue("bool", 0, << >>)
GoNil == GoValue("nil", 0, << >>)
GoArray(n) == GoValue("array", n, << >>)

\* JSON text of one value.
JNum(n) == GoValue("number", n, << >>)
JStr(s) == GoValue("string", 0, s)
JBool == GoValue("bool", 0, << >>)
JNull == GoValue("null", 0, << >>)
JArray(n) == GoValue("array", n, << >>)

\* json.Marshal of one value: int and float64 both print as a JSON number.
MarshalValue(v) ==
    CASE v.t \in {"float64", "int"} -> JNum(v.n)
      [] v.t = "nil" -> JNull
      [] OTHER -> v
\* json.Unmarshal of one value into `any`: a JSON number becomes a float64.
UnmarshalValue(j) ==
    CASE j.t = "number" -> Flt(j.n)
      [] j.t = "null" -> GoNil
      [] OTHER -> j

MarshalRecord(rec) == [k \in DOMAIN rec |-> MarshalValue(rec[k])]
UnmarshalRecord(obj) == [k \in DOMAIN obj |-> UnmarshalValue(obj[k])]

MarshalList(list) == [i \in 1..Len(list) |-> MarshalRecord(list[i])]
UnmarshalList(jl) == [i \in 1..Len(jl) |-> UnmarshalRecord(jl[i])]

\* json.MarshalIndent(s.Data): the whole table, every resource.
MarshalTable(data) == [res \in DOMAIN data |-> MarshalList(data[res])]
UnmarshalTable(jt) == [res \in DOMAIN jt |-> UnmarshalList(jt[res])]

-----------------------------------------------------------------------------
(* The storage file and the Store built from it.                            *)

\* The file is absent, holds bytes that are no JSON, holds the JSON text
\* null, or holds a JSON object: `table` are its members that are lists of
\* objects, `bad` the names of its members that are something else.
MissingFile == [kind |-> "missing", table |-> << >>, bad |-> {}]
CorruptFile == [kind |-> "corrupt", table |-> << >>, bad |-> {}]
NullFile == [kind |-> "null", table |-> << >>, bad |-> {}]
JsonFile(jt) == [kind |-> "json", table |-> jt, bad |-> {}]
PartialFile(jt, bad) == [kind |-> "json", table |-> jt, bad |-> bad]

\* json.Unmarshal of null into &s.Data sets the map to nil and returns no
\* error.
NilStore(file) == file.kind = "null"

\* NewStore: start from an empty map; a readable file is unmarshalled into it,
\* and both the read error and the decode error are dropped. Bytes that are
\* no JSON leave the map as it is; a member that is no list of objects is an
\* error too, but Unmarshal goes on, stores a nil list under its name and
\* decodes the other members.
NewStore(file) ==
    IF file.kind = "json"
    THEN [res \in DOMAIN file.table \cup file.bad |->
             IF res \in file.bad THEN << >> ELSE UnmarshalList(file.table[res])]
    ELSE << >>

\* Store.Save after it holds the lock: the file becomes the marshalled table.
WriteFile(data) == JsonFile(MarshalTable(data))

-----------------------------------------------------------------------------
(* Strings the code inspects character by character (header values, media  *)
(* types, scheme names) are sequences of one-character strings.             *)

Upper == <<"A", "B", "C", "E", "I", "R", "S">>
Lower == <<"a", "b", "c", "e", "i", "r", "s">>

\* unicode.ToLower of one character, over the letters the model's inputs use.
ToLowerChar(c) ==
    IF \E i \in 1..Len(Upper) : Upper[i] = c
    THEN Lower[CHOOSE i \in 1..Len(Upper) : Upper[i] = c]
    ELSE c
ToLower(s) == [i \in 1..Len(s) |-> ToLowerChar(s[i])]

\* strings.EqualFold, strings.HasPrefix, strings.HasSuffix
EqualFold(a, b) == ToLower(a) = ToLower(b)
HasPrefix(s, prefix) ==
    Len(s) >= Len(prefix) /\ SubSeq(s, 1, Len(prefix)) = prefix
HasSuffix(s, suffix) ==
    Len(s) >= Len(suffix) /\ SubSeq(s, Len(s) - Len(suffix) + 1, Len(s)) = suffix

\* Index of the first ';' of s, or Len(s) + 1 when it has none.
SemicolonAt(s) ==
    IF \E i \in 1..Len(s) : s[i] = ";"
    THEN CHOOSE i \in 1..Len(s) : s[i] = ";" /\ \A j \in 1..(i - 1) : s[j] # ";"
    ELSE Len(s) + 1
\* strings.Split(s, ";")[0]
BeforeSemicolon(s) == SubSeq(s, 1, SemicolonAt(s) - 1)

RECURSIVE TrimLeft(_)
TrimLeft(s) == IF s # << >> /\ Head(s) = " " THEN TrimLeft(Tail(s)) ELSE s
RECURSIVE TrimRight(_)
TrimRight(s) ==
    IF s # << >> /\ s[Len(s)] = " " THEN TrimRight(SubSeq(s, 1, Len(s) - 1)) ELSE s
\* strings.TrimSpace
TrimSpace(s) == TrimRight(TrimLeft(s))

BearerUpper == <<"B", "e", "a", "r", "e", "r", " ">>
BearerLower == <<"b", "e", "a", "r", "e", "r", " ">>
bearer == <<"b", "e", "a", "r", "e", "r">>
json == <<"j", "s", "o", "n">>

-----------------------------------------------------------------------------
(* The request as fiber hands it to handle.                                 *)

\* c.Get, c.Query, c.Cookies, c.Params: the value, or "" when the name is absent.
Lookup(m, name) == IF name \in DOMAIN m THEN m[name] ELSE << >>
GetHeader(req, name) == Lookup(req.header, name)
Query(req, name) == Lookup(req.query, name)
Cookies(req, name) == Lookup(req.cookie, name)
Params(req, name) == Lookup(req.params, name)

\* c.Body(): no bytes, bytes that are no JSON object, or a JSON object.
EmptyBody == [kind |-> "empty", obj |-> << >>]
InvalidBody == [kind |-> "invalid", obj |-> << >>]
ObjectBody(obj) == [kind |-> "object", obj |-> obj]
BodyLen(req) == IF req.body.kind = "empty" THEN 0 ELSE 1

-----------------------------------------------------------------------------
(* The OpenAPI document: openapiDoc, set once by startServer.               *)

\* A nil pointer, slice or map is a record with set = FALSE.
NoSecurity == [set |-> FALSE, reqs |-> << >>]
SecurityList(reqs) == [set |-> TRUE, reqs |-> reqs]
NoSchemes == [set |-> FALSE, m |-> << >>]
Schemes(m) == [set |-> TRUE, m |-> m]

\* Mutant of resolveSecurityRequirements: the operation's list counts only
\* when it is not empty (len(...) > 0 in place of != nil).
resolveNonEmpty(doc, operation) ==
    IF operation.set /\ operation.op.Security.set /\ Len(operation.op.Security.reqs) > 0
    THEN operation.op.Security
    ELSE IF doc.set /\ doc.Security.set THEN doc.Security ELSE NoSecurity

\* resolveSecurityRequirements: the operation's own list when it has one,
\* else the document's list when it has one, else nil.
resolveSecurityRequirements(doc, operation) ==
    IF operation.set /\ operation.op.Security.set
    THEN operation.op.Security
    ELSE IF doc.set /\ doc.Security.set THEN doc.Security ELSE NoSecurity

\* One scheme of one requirement, as the switch on scheme.Type decides it.
schemeSatisfied(req, scheme) ==
    CASE scheme.Type = "http" ->
           LET auth == GetHeader(req, "Authorization") IN
             /\ auth # << >>
             /\ (EqualFold(scheme.Scheme, bearer) =>
                    (HasPrefix(auth, BearerUpper) \/ HasPrefix(auth, BearerLower)))
      [] scheme.Type = "apiKey" ->
           CASE scheme.In = "header" -> GetHeader(req, scheme.Name) # << >>
             [] scheme.In = "query" -> Query(req, scheme.Name) # << >>
             [] scheme.In = "cookie" -> Cookies(req, scheme.Name) # << >>
             [] OTHER -> FALSE
      [] OTHER -> GetHeader(req, "Authorization") # << >>

\* The inner loop over one requirement: every named scheme must be declared
\* and satisfied (the loop stops at the first one that is not).
allSatisfied(req, schemes, requirement) ==
    \A schemeName \in requirement :
        /\ schemeName \in DOMAIN schemes
        /\ schemeSatisfied(req, schemes[schemeName])

\* The outer loop from alternative i on: an empty requirement returns true,
\* a requirement with all schemes satisfied returns true, else the next one.
RECURSIVE anyRequirement(_, _, _, _)
anyRequirement(req, schemes, reqs, i) ==
    IF i > Len(reqs) THEN FALSE
    ELSE IF reqs[i] = {} THEN TRUE
    ELSE IF allSatisfied(req, schemes, reqs[i]) THEN TRUE
    ELSE anyRequirement(req, schemes, reqs, i + 1)

\* isAuthenticated: false at once when the document declares no security
\* schemes, else the loop over the alternatives.
isAuthenticated(doc, req, reqs) ==
    IF ~doc.set \/ ~doc.Components.set \/ ~doc.Components.SecuritySchemes.set
    THEN FALSE
    ELSE anyRequirement(req, doc.Components.SecuritySchemes.m, reqs, 1)

-----------------------------------------------------------------------------
(* Schemas and the body validator.                                          *)

\* openapi3.Schema, the fields the validator reads. MaxLength = -1 is a nil
\* MaxLength. Every reference of a loaded document is resolved, so Properties
\* and the composition lists hold schemas themselves.
Schema(type, required, properties) ==
    [Type |-> type, Nullable |-> FALSE, MinLength |-> 0, MaxLength |-> -1,
     Enum |-> << >>, MinItems |-> 0, Required |-> required,
     Properties |-> properties, AllOf |-> << >>, OneOf |-> << >>, AnyOf |-> << >>]

\* props[k] = v for every k of q: q overwrites.
MergeOverwrite(p, q) ==
    [k \in DOMAIN p \cup DOMAIN q |-> IF k \in DOMAIN q THEN q[k] ELSE p[k]]
\* Mutant of MergeAbsent: a branch overwrites the definition already present.
MergeLastWins(p, q) ==
    [k \in DOMAIN p \cup DOMAIN q |-> IF k \in DOMAIN q THEN q[k] ELSE p[k]]

\* props[k] = v only where props has no k yet: p is kept.
MergeAbsent(p, q) ==
    [k \in DOMAIN p \cup DOMAIN q |-> IF k \in DOMAIN p THEN p[k] ELSE q[k]]

\* Mutant of collectSchemaConstraints: an allOf branch gives its own required
\* and properties only, its own branches are not walked.
collectOneLevel(schema) ==
    LET own == [required |-> schema.Required, props |-> schema.Properties]
        RECURSIVE walkAllOf(_, _)
        walkAllOf(acc, i) ==
            IF i > Len(schema.AllOf) THEN acc
            ELSE walkAllOf([required |-> acc.required \o schema.AllOf[i].Required,
                            props |-> MergeOverwrite(acc.props, schema.AllOf[i].Properties)],
                           i + 1)
        RECURSIVE walkBranches(_, _, _)
        walkBranches(acc, branches, i) ==
            IF i > Len(branches) THEN acc
            ELSE walkBranches([required |-> acc.required,
                               props |-> MergeAbsent(acc.props, branches[i].Properties)],
                              branches, i + 1)
    IN walkBranches(walkBranches(walkAllOf(own, 1), schema.OneOf, 1), schema.AnyOf, 1)

\* collectSchemaConstraints: the schema's own required and properties, then
\* every allOf branch appended and merged, then the properties of every oneOf
\* and anyOf branch merged where the name is still free.
RECURSIVE collectSchemaConstraints(_)
collectSchemaConstraints(schema) ==
    LET own == [required |-> schema.Required, props |-> schema.Properties]
        RECURSIVE walkAllOf(_, _)
        walkAllOf(acc, i) ==
            IF i > Len(schema.AllOf) THEN acc
            ELSE LET sub == collectSchemaConstraints(schema.AllOf[i]) IN
                 walkAllOf([required |-> acc.required \o sub.required,
                            props |-> MergeOverwrite(acc.props, sub.props)], i + 1)
        RECURSIVE walkBranches(_, _, _)
        walkBranches(acc, branches, i) ==
            IF i > Len(branches) THEN acc
            ELSE LET sub == collectSchemaConstraints(branches[i]) IN
                 walkBranches([required |-> acc.required,
                               props |-> MergeAbsent(acc.props, sub.props)],
                              branches, i + 1)
    IN walkBranches(walkBranches(walkAllOf(own, 1), schema.OneOf, 1), schema.AnyOf, 1)

\* checkType: "" when val passes prop, else the rule it fails first.
checkType(val, prop) ==
    IF val.t = "nil"
    THEN IF ~prop.Nullable THEN "must not be null" ELSE ""
    ELSE CASE prop.Type = "string" ->
                IF val.t # "string" THEN "must be a string"
                ELSE IF prop.MinLength > 0 /\ Len(val.s) < prop.MinLength
                THEN "must be at least MinLength characters"
                ELSE IF prop.MaxLength # -1 /\ Len(val.s) > prop.MaxLength
                THEN "must be at most MaxLength characters"
                ELSE IF Len(prop.Enum) > 0
                        /\ ~\E i \in 1..Len(prop.Enum) : prop.Enum[i] = val.s
                THEN "must be one of Enum"
                ELSE ""
           [] prop.Type \in {"integer", "number"} ->
                IF val.t # "float64" THEN "must be a number" ELSE ""
           [] prop.Type = "boolean" ->
                IF val.t # "bool" THEN "must be a boolean" ELSE ""
           [] prop.Type = "array" ->
                IF val.t # "array" THEN "must be an array"
                ELSE IF prop.MinItems > 0 /\ val.n < prop.MinItems
                THEN "must have at least MinItems items"
                ELSE ""
           [] OTHER -> ""

\* Mutant of validateBody: the properties are checked only when no required
\* field is missing.
validateBodyShortCircuit(raw, schema) ==
    IF raw.kind # "object"
    THEN [invalid |-> TRUE, missing |-> << >>, failed |-> {}]
    ELSE LET body == UnmarshalRecord(raw.obj)
             c == collectSchemaConstraints(schema)
             missing == SelectSeq(c.required, LAMBDA field : field \notin DOMAIN body)
         IN [invalid |-> FALSE,
             missing |-> missing,
             failed |-> IF missing # << >> THEN {}
                        ELSE {v \in {[name |-> name, msg |-> checkType(body[name], c.props[name])] :
                                        name \in DOMAIN c.props \cap DOMAIN body} : v.msg # ""}]

\* validateBody: a body that does not decode into a JSON object is one
\* violation; else one violation per entry of the required list that the body
\* lacks (in list order) and one per supplied property that checkType rejects.
validateBody(raw, schema) ==
    IF raw.kind # "object"
    THEN [invalid |-> TRUE, missing |-> << >>, failed |-> {}]
    ELSE LET body == UnmarshalRecord(raw.obj)
             c == collectSchemaConstraints(schema)
         IN [invalid |-> FALSE,
             missing |-> SelectSeq(c.required, LAMBDA field : field \notin DOMAIN body),
             failed |-> {v \in {[name |-> name, msg |-> checkType(body[name], c.props[name])] :
                                   name \in DOMAIN c.props \cap DOMAIN body} : v.msg # ""}]

\* len(violations)
NumViolations(v) ==
    (IF v.invalid THEN 1 ELSE 0) + Len(v.missing) + Cardinality(v.failed)

-----------------------------------------------------------------------------
(* Operations of the document and the three validation stages of handle.    *)

NoRequestBody == [set |-> FALSE, Required |-> FALSE, Content |-> [set |-> FALSE, m |-> << >>]]
\* content maps a media type to [set |-> the media type has a schema, schema |-> it]
RequestBody(required, content) ==
    [set |-> TRUE, Required |-> required, Content |-> [set |-> TRUE, m |-> content]]
Parameter(name, in, required) == [Name |-> name, In |-> in, Required |-> required]
Operation(security, requestBody, parameters) ==
    [Security |-> security, RequestBody |-> requestBody, Parameters |-> parameters]

NoOperation == [set |-> FALSE, op |-> Operation(NoSecurity, NoRequestBody, << >>)]

\* A path is the sequence of its segments; the resource is the first one
\* (RegisterRoutes: strings.Split(strings.Trim(p, "/"), "/")[0]).
ResourceOf(path) == path[1]

\* operationForPathMethod: the operation of the path item for the method, nil
\* when the document is nil or has no such path or method.
operationForPathMethod(doc, path, method) ==
    IF doc.set /\ path \in DOMAIN doc.Paths /\ method \in DOMAIN doc.Paths[path]
    THEN [set |-> TRUE, op |-> doc.Paths[path][method]]
    ELSE NoOperation

\* needsRequestBody
needsRequestBody(method) == method \in {"POST", "PUT", "PATCH"}

\* What a stage answers: status 0 lets the request through.
Pass == [status |-> 0, message |-> "", violations |-> 0, name |-> ""]
Reject(status, message) == [status |-> status, message |-> message, violations |-> 0, name |-> ""]

\* STEP 1: the security check runs only for a non-empty requirement list.
securityStage(doc, req, operation) ==
    LET secReqs == resolveSecurityRequirements(doc, operation) IN
    IF Len(secReqs.reqs) > 0 /\ ~isAuthenticated(doc, req, secReqs.reqs)
    THEN Reject(401, "Invalid security scheme used")
    ELSE Pass

\* Mutant of bodyStage: the whole Content-Type header, parameters included,
\* is looked up in the media-type mapping.
bodyStageWholeHeader(req, operation) ==
    IF ~(operation.set /\ needsRequestBody(req.method) /\ operation.op.RequestBody.set)
    THEN Pass
    ELSE LET rb == operation.op.RequestBody
             ct == GetHeader(req, "Content-Type")
         IN IF rb.Required /\ BodyLen(req) = 0
            THEN Reject(400, "Body parameter is required")
            ELSE IF ~(BodyLen(req) > 0 /\ rb.Content.set) THEN Pass
            ELSE IF ct = << >> THEN Reject(415, "Content-Type header is required")
            ELSE IF ct \notin DOMAIN rb.Content.m
            THEN Reject(415, "Unsupported media type")
            ELSE LET mediaType == rb.Content.m[ct]
                     n == IF mediaType.set
                          THEN NumViolations(validateBody(req.body, mediaType.schema))
                          ELSE 0
                 IN IF n > 0
                    THEN [status |-> 400, message |-> "violations", violations |-> n, name |-> ""]
                    ELSE Pass

\* STEP 2: required body, content type, schema.
bodyStage(req, operation) ==
    IF ~(operation.set /\ needsRequestBody(req.method) /\ operation.op.RequestBody.set)
    THEN Pass
    ELSE LET rb == operation.op.RequestBody
             ct == GetHeader(req, "Content-Type")
             baseCT == TrimSpace(BeforeSemicolon(ct))
         IN IF rb.Required /\ BodyLen(req) = 0
            THEN Reject(400, "Body parameter is required")
            ELSE IF ~(BodyLen(req) > 0 /\ rb.Content.set) THEN Pass
            ELSE IF ct = << >> THEN Reject(415, "Content-Type header is required")
            ELSE IF baseCT \notin DOMAIN rb.Content.m
            THEN Reject(415, "Unsupported media type")
            ELSE LET mediaType == rb.Content.m[baseCT]
                     n == IF mediaType.set
                          THEN NumViolations(validateBody(req.body, mediaType.schema))
                          ELSE 0
                 IN IF n > 0
                    THEN [status |-> 400, message |-> "violations", violations |-> n, name |-> ""]
                    ELSE Pass

\* The value STEP 3 reads for one parameter: any other location reads as "".
paramValue(req, p) ==
    CASE p.In = "query" -> Query(req, p.Name)
      [] p.In = "path" -> Params(req, p.Name)
      [] p.In = "header" -> GetHeader(req, p.Name)
      [] OTHER -> << >>

\* STEP 3 from parameter i on: the first required parameter without a value
\* rejects the request.
RECURSIVE paramsFrom(_, _, _)
paramsFrom(req, parameters, i) ==
    IF i > Len(parameters) THEN Pass
    ELSE IF parameters[i].Required /\ paramValue(req, parameters[i]) = << >>
    THEN [status |-> 400, message |-> "Required parameter is missing",
          violations |-> 0, name |-> parameters[i].Name]
    ELSE paramsFrom(req, parameters, i + 1)

paramStage(req, operation) ==
    IF operation.set THEN paramsFrom(req, operation.op.Parameters, 1) ELSE Pass

-----------------------------------------------------------------------------
(* The mock section of handle: what it computes once it holds store.mu.     *)

Digits == <<"0", "1", "2", "3", "4", "5", "6", "7", "8", "9">>
IsDigit(c) == \E d \in 1..10 : Digits[d] = c
DigitValue(c) == (CHOOSE d \in 1..10 : Digits[d] = c) - 1

RECURSIVE DecimalValue(_, _)
DecimalValue(s, acc) ==
    IF s = << >> THEN acc ELSE DecimalValue(Tail(s), 10 * acc + DigitValue(Head(s)))

\* id, _ := strconv.Atoi(s): the number s spells, with an optional sign, and 0
\* (the error is dropped) for anything else, the empty string included.
Atoi(s) ==
    LET signed == s # << >> /\ Head(s) \in {"+", "-"}
        digits == IF signed THEN Tail(s) ELSE s
    IN IF digits = << >> \/ \E i \in 1..Len(digits) : ~IsDigit(digits[i]) THEN 0
       ELSE IF signed /\ Head(s) = "-" THEN 0 - DecimalValue(digits, 0)
       ELSE DecimalValue(digits, 0)

\* store.Data[resource], nil read as the empty list.
ListOf(data, resource) == IF resource \in DOMAIN data THEN data[resource] ELSE << >>
\* store.Data[resource] = list
WithList(data, resource, list) ==
    [res \in DOMAIN data \cup {resource} |-> IF res = resource THEN list ELSE data[res]]

\* item["id"].(float64) succeeds only on a record whose id is a float64.
HasFloatId(item) == "id" \in DOMAIN item /\ item["id"].t = "float64"

\* The loop `for i, item := range list` with the test
\* int(item["id"].(float64)) == id, from index i on: the index of the first
\* match, 0 when the loop ends without one, -1 when the type assertion panics
\* on a record met before a match.
RECURSIVE findById(_, _, _)
findById(list, id, i) ==
    IF i > Len(list) THEN 0
    ELSE IF ~HasFloatId(list[i]) THEN -1
    ELSE IF list[i]["id"].n = id THEN i
    ELSE findById(list, id, i + 1)

\* c.BodyParser(&body) into an empty map, its error dropped: fiber decodes the
\* body as JSON when the content type before ';', lower-cased, ends in "json";
\* when it does not decode, the map stays empty.
BodyParser(req) ==
    IF HasSuffix(ToLower(BeforeSemicolon(GetHeader(req, "Content-Type"))), json)
       /\ req.body.kind = "object"
    THEN UnmarshalRecord(req.body.obj)
    ELSE << >>

\* body["id"] = len(list) + 1
NewRecord(body, list) ==
    [k \in DOMAIN body \cup {"id"} |-> IF k = "id" THEN GoInt(Len(list) + 1) ELSE body[k]]
\* Mutant of MergeInto: the record becomes the submitted body.
ReplaceWhole(item, body) == body

\* for k, v := range body { item[k] = v }
MergeInto(item, body) ==
    [k \in DOMAIN item \cup DOMAIN body |-> IF k \in DOMAIN body THEN body[k] ELSE item[k]]
\* append(list[:i], list[i+1:]...)
RemoveAt(list, i) == SubSeq(list, 1, i - 1) \o SubSeq(list, i + 1, Len(list))
ReplaceAt(list, i, item) == [list EXCEPT ![i] = item]

\* What handle hands back to fiber.
NoResponse == [status |-> 0, message |-> "", name |-> "", item |-> << >>, list |-> << >>]
\* c.Status(status).JSON(fiber.Map{"error": message, ...}) and fiber's errors.
ErrorResponse(status, message) ==
    [status |-> status, message |-> message, name |-> "", item |-> << >>, list |-> << >>]
ItemResponse(status, item) ==
    [status |-> status, message |-> "", name |-> "", item |-> item, list |-> << >>]
ListResponse(list) == [status |-> 200, message |-> "", name |-> "", item |-> << >>, list |-> list]
\* validationError with the outcome of a stage: the message names the
\* parameter when one is missing.
Rejection(outcome) ==
    [ErrorResponse(outcome.status, outcome.message) EXCEPT !.name = outcome.name]
\* A panic of the handler goroutine: no response is written.
Panicked == [status |-> -1, message |-> "", name |-> "", item |-> << >>, list |-> << >>]

-----------------------------------------------------------------------------
(* Documents, storage files and requests the model runs on.                 *)

AppJson == <<"a", "p", "p", "l", "i", "c", "a", "t", "i", "o", "n", "/", "j", "s", "o", "n">>
Red == <<"r", "e", "d">>
Blue == <<"b", "l", "u", "e">>

Document(security, schemes, paths) ==
    [set |-> TRUE, Security |-> security,
     Components |-> [set |-> TRUE, SecuritySchemes |-> schemes],
     Paths |-> paths]

Widgets == <<"widgets">>
WidgetById == <<"widgets", "{id}">>

ColorSchema == Schema("string", << >>, << >>)
WidgetSchema == Schema("object", << >>, [color |-> ColorSchema])
WidgetBody(required) ==
    RequestBody(required, (AppJson :> [set |-> TRUE, schema |-> WidgetSchema]))
IdParameter == <<Parameter("id", "path", TRUE)>>

\* A CRUD document without security: a collection path and a by-id path.
CrudDoc ==
    Document(NoSecurity, NoSchemes,
        (Widgets :> [GET |-> Operation(NoSecurity, NoRequestBody, << >>),
                     POST |-> Operation(NoSecurity, WidgetBody(FALSE), << >>)])
        @@ (WidgetById :> [GET |-> Operation(NoSecurity, NoRequestBody, IdParameter),
                           PUT |-> Operation(NoSecurity, WidgetBody(FALSE), IdParameter),
                           PATCH |-> Operation(NoSecurity, WidgetBody(FALSE), IdParameter),
                           DELETE |-> Operation(NoSecurity, NoRequestBody, IdParameter)]))

\* Storage files: absent, unreadable, and tables the server itself writes
\* (the last one is what is left of two records after the first was deleted).
WidgetsFile(records) == JsonFile([widgets |-> records])
Files ==
    {MissingFile,
     WidgetsFile(<<[id |-> JNum(1), color |-> JStr(Red)]>>),
     WidgetsFile(<<[id |-> JNum(1), color |-> JStr(Red)], [id |-> JNum(2), color |-> JStr(Blue)]>>),
     WidgetsFile(<<[id |-> JNum(2), color |-> JStr(Blue)]>>)}

Request(method, path, params, header, query, cookie, body) ==
    [method |-> method, path |-> path, params |-> params, header |-> header,
     query |-> query, cookie |-> cookie, body |-> body]
NullRequest == Request("", << >>, << >>, << >>, << >>, << >>, EmptyBody)

JsonHeader == ("Content-Type" :> AppJson)

\* Path parameter values of by-id requests: two numbers and one that is none.
IdValues == {<<"1">>, <<"2">>}
NotANumber == <<"x">>

ById(method, id, header, body) ==
    Request(method, WidgetById, [id |-> id], header, << >>, << >>, body)

\* The requests clients send to the CRUD document.
CrudRequests ==
    {Request("GET", Widgets, << >>, << >>, << >>, << >>, EmptyBody),
     Request("POST", Widgets, << >>, JsonHeader, << >>, << >>, ObjectBody([color |-> JStr(Red)]))}
    \cup {ById("GET", id, << >>, EmptyBody) : id \in IdValues \cup {NotANumber}}
    \cup {ById("DELETE", id, << >>, EmptyBody) : id \in IdValues}
    \cup {ById("PUT", id, JsonHeader, ObjectBody([color |-> JStr(Blue)])) : id \in IdValues}

-----------------------------------------------------------------------------
(* State.                                                                   *)

VARIABLES
    openapiDoc,  \* the loaded document (server.go: var openapiDoc)
    file,        \* the storage file named by --data
    Data,        \* Store.Data, the in-memory table
    mu,          \* Store.mu: 0 when unlocked, else the request whose goroutine locked it
    running,     \* FALSE once a handler panic has taken the process down
    pc,          \* where each request's goroutine stands in handle
    req,         \* the request each goroutine serves
    resp,        \* the response handle has built; the client has it once pc is "done"
    trace,       \* the steps of handle each request has gone through, in order
    onlyCreates  \* history: the table was loaded empty and all that has arrived since
                 \* is one create per goroutine slot

vars == <<openapiDoc, file, Data, mu, running, pc, req, resp, trace, onlyCreates>>

\* RegisterRoutes: every path's resource gets a list of its own when it has none.
RegisterRoutes(data, doc) ==
    [res \in DOMAIN data \cup {ResourceOf(path) : path \in DOMAIN doc.Paths} |->
        ListOf(data, res)]

\* store.Data[resource] = []map[string]any{} in RegisterRoutes is an
\* assignment to an entry of a nil map when NewStore left the map nil: the
\* process panics before it listens.
StartupPanics(doc, f) == NilStore(f) /\ DOMAIN doc.Paths # {}

\* startServer from the document on: NewStore, then RegisterRoutes, and no
\* request in flight.
Started(doc, f) ==
    /\ openapiDoc = doc
    /\ file = f
    /\ Data = RegisterRoutes(NewStore(f), doc)
    /\ mu = 0
    /\ running = ~StartupPanics(doc, f)
    /\ pc = [r \in Requests |-> "idle"]
    /\ req = [r \in Requests |-> NullRequest]
    /\ resp = [r \in Requests |-> NoResponse]
    /\ trace = [r \in Requests |-> << >>]
    /\ onlyCreates = (\A res \in DOMAIN NewStore(f) : NewStore(f)[res] = << >>)

Init == \E f \in Files : Started(CrudDoc, f)

\* The process is stopped and started again on the same document and file.
startServer ==
    /\ Data' = RegisterRoutes(NewStore(file), openapiDoc)
    /\ mu' = 0
    /\ running' = ~StartupPanics(openapiDoc, file)
    /\ pc' = [r \in Requests |-> "idle"]
    /\ req' = [r \in Requests |-> NullRequest]
    /\ resp' = [r \in Requests |-> NoResponse]
    /\ trace' = [r \in Requests |-> << >>]
    /\ onlyCreates' = (\A res \in DOMAIN NewStore(file) : NewStore(file)[res] = << >>)
    /\ UNCHANGED <<openapiDoc, file>>

operationOf(r) == operationForPathMethod(openapiDoc, req[r].path, req[r].method)
resourceOf(r) == ResourceOf(req[r].path)

\* One handler step of request r: it moves to `next`, having gone through `step`.
Step(r, step, next) ==
    /\ pc' = [pc EXCEPT ![r] = next]
    /\ trace' = [trace EXCEPT ![r] = Append(@, step)]

\* fiber starts handle for a request on a goroutine; goroutines have no
\* identity of their own, so the request takes the lowest free slot.
Arrive(r, request) ==
    /\ running
    /\ pc[r] \in {"idle", "done"}
    /\ \A q \in 1..(r - 1) : pc[q] \notin {"idle", "done"}
    /\ req' = [req EXCEPT ![r] = request]
    /\ resp' = [resp EXCEPT ![r] = NoResponse]
    /\ pc' = [pc EXCEPT ![r] = "security"]
    /\ trace' = [trace EXCEPT ![r] = << >>]
    /\ onlyCreates' = (onlyCreates /\ pc[r] = "idle" /\ request.method = "POST")
    /\ UNCHANGED <<openapiDoc, file, Data, mu, running>>

\* A validation stage of handle: a rejection is returned at once, a pass
\* goes on to the next stage.
Stage(r, stage, outcome, next) ==
    /\ running
    /\ pc[r] = stage
    /\ IF outcome.status # 0
       THEN resp' = [resp EXCEPT ![r] = Rejection(outcome)] /\ Step(r, stage, "done")
       ELSE resp' = resp /\ Step(r, stage, next)
    /\ UNCHANGED <<openapiDoc, file, Data, mu, running, req, onlyCreates>>

\* Mutant of Body: a body that passes goes straight on to the store.
BodyThenStore(r) == Stage(r, "body", bodyStage(req[r], operationOf(r)), "lock")

\* Mutant of Parameters: the handler takes the mutex before STEP 3 and a
\* rejection returns with it.
ParametersUnderLock(r) ==
    /\ mu = 0
    /\ mu' = r
    /\ running
    /\ pc[r] = "params"
    /\ LET outcome == paramStage(req[r], operationOf(r)) IN
         IF outcome.status # 0
         THEN /\ resp' = [resp EXCEPT ![r] = Rejection(outcome)]
              /\ Step(r, "params", "done")
         ELSE resp' = resp /\ Step(r, "params", "mock")
    /\ UNCHANGED <<openapiDoc, file, Data, running, req, onlyCreates>>

Security(r) == Stage(r, "security", securityStage(openapiDoc, req[r], operationOf(r)), "body")
Body(r) == Stage(r, "body", bodyStage(req[r], operationOf(r)), "params")
Parameters(r) == Stage(r, "params", paramStage(req[r], operationOf(r)), "lock")

\* Mutant of Lock: the handler enters the store section without waiting for
\* the mutex.
LockWithoutWaiting(r) ==
    /\ running
    /\ pc[r] = "lock"
    /\ mu' = r
    /\ Step(r, "lock", "mock")
    /\ UNCHANGED <<openapiDoc, file, Data, running, req, resp, onlyCreates>>

\* store.mu.Lock() in handle: the goroutine waits until the mutex is free.
Lock(r) ==
    /\ running
    /\ pc[r] = "lock"
    /\ mu = 0
    /\ mu' = r
    /\ Step(r, "lock", "mock")
    /\ UNCHANGED <<openapiDoc, file, Data, running, req, resp, onlyCreates>>

\* if store.Data[resource] == nil { store.Data[resource] = []map[string]any{} }
Ensure(data, resource) == WithList(data, resource, ListOf(data, resource))

\* The response of a lookup that ended at index i (0: no match, -1: panic).
Missed(i) == IF i = 0 THEN ErrorResponse(404, "Not Found") ELSE Panicked

\* case fiber.MethodGet
Get(r) ==
    LET data == Ensure(Data, resourceOf(r))
        list == data[resourceOf(r)]
        id == Atoi(Params(req[r], "id"))
        i == findById(list, id, 1)
    IN /\ running
       /\ pc[r] = "mock"
       /\ req[r].method = "GET"
       /\ Data' = data
       /\ resp' = [resp EXCEPT ![r] =
                     IF id > 0
                     THEN IF i > 0 THEN ItemResponse(200, list[i]) ELSE Missed(i)
                     ELSE ListResponse(list)]
       /\ Step(r, "mock", "return")
       /\ UNCHANGED <<openapiDoc, file, mu, running, req, onlyCreates>>

\* case fiber.MethodPost, up to the call of saveStore
Post(r) ==
    LET data == Ensure(Data, resourceOf(r))
        list == data[resourceOf(r)]
        body == NewRecord(BodyParser(req[r]), list)
    IN /\ running
       /\ pc[r] = "mock"
       /\ req[r].method = "POST"
       /\ Data' = WithList(data, resourceOf(r), Append(list, body))
       /\ resp' = [resp EXCEPT ![r] = ItemResponse(201, body)]
       /\ Step(r, "mock", "save")
       /\ UNCHANGED <<openapiDoc, file, mu, running, req, onlyCreates>>

\* case fiber.MethodPut, fiber.MethodPatch, up to the call of saveStore
PutPatch(r) ==
    LET data == Ensure(Data, resourceOf(r))
        list == data[resourceOf(r)]
        id == Atoi(Params(req[r], "id"))
        i == findById(list, id, 1)
        item == MergeInto(list[i], BodyParser(req[r]))
    IN /\ running
       /\ pc[r] = "mock"
       /\ req[r].method \in {"PUT", "PATCH"}
       /\ IF i > 0
          THEN /\ Data' = WithList(data, resourceOf(r), ReplaceAt(list, i, item))
               /\ resp' = [resp EXCEPT ![r] = ItemResponse(200, item)]
               /\ Step(r, "mock", "save")
          ELSE /\ Data' = data
               /\ resp' = [resp EXCEPT ![r] = Missed(i)]
               /\ Step(r, "mock", "return")
       /\ UNCHANGED <<openapiDoc, file, mu, running, req, onlyCreates>>

\* case fiber.MethodDelete, up to the call of saveStore
Delete(r) ==
    LET data == Ensure(Data, resourceOf(r))
        list == data[resourceOf(r)]
        id == Atoi(Params(req[r], "id"))
        i == findById(list, id, 1)
    IN /\ running
       /\ pc[r] = "mock"
       /\ req[r].method = "DELETE"
       /\ IF i > 0
          THEN /\ Data' = WithList(data, resourceOf(r), RemoveAt(list, i))
               /\ resp' = [resp EXCEPT ![r] = ErrorResponse(204, "")]
               /\ Step(r, "mock", "save")
          ELSE /\ Data' = data
               /\ resp' = [resp EXCEPT ![r] = Missed(i)]
               /\ Step(r, "mock", "return")
       /\ UNCHANGED <<openapiDoc, file, mu, running, req, onlyCreates>>

\* saveStore -> Store.Save: s.mu.Lock(), then the whole table is written and
\* the mutex released again. While the mutex is held (sync.Mutex has no owner
\* and is not reentrant, so also when the caller holds it) the goroutine
\* stays parked in Lock.
Save(r) ==
    /\ running
    /\ pc[r] \in {"save", "parked"}
    /\ IF mu = 0
       THEN /\ file' = WriteFile(Data)
            /\ pc' = [pc EXCEPT ![r] = "return"]
            /\ trace' = [trace EXCEPT ![r] = Append(@, "save")]
       ELSE /\ file' = file
            /\ pc' = [pc EXCEPT ![r] = "parked"]
            /\ trace' = trace
    /\ UNCHANGED <<openapiDoc, Data, mu, running, req, resp, onlyCreates>>

\* handle returns: the deferred store.mu.Unlock() runs and fiber writes the
\* response; a panic unwinds through the same defer and ends the process.
Return(r) ==
    /\ running
    /\ pc[r] = "return"
    /\ mu' = 0
    /\ running' = (resp[r] # Panicked)
    /\ Step(r, "return", "done")
    /\ UNCHANGED <<openapiDoc, file, Data, req, resp, onlyCreates>>

\* The steps of the goroutine serving request r.
Handle(r) ==
    \/ Security(r) \/ Body(r) \/ Parameters(r) \/ Lock(r)
    \/ Get(r) \/ Post(r) \/ PutPatch(r) \/ Delete(r)
    \/ Save(r) \/ Return(r)

\* The server serves: a request arrives, or a handler goroutine takes a step.
Serve ==
    \/ \E r \in Requests : \E request \in CrudRequests : Arrive(r, request)
    \/ \E r \in Requests : Handle(r)

Next == Serve \/ startServer

Spec == Init /\ [][Next]_vars

-----------------------------------------------------------------------------
(* The validation pipeline on a document with security, a required body     *)
(* with a schema and required parameters: one request at a time.            *)

ApiKeyHeader == [Type |-> "apiKey", Scheme |-> << >>, In |-> "header", Name |-> "X-Key"]

StrictWidgetSchema == Schema("object", <<"color">>, [color |-> ColorSchema])
StrictBody(required) ==
    RequestBody(required, (AppJson :> [set |-> TRUE, schema |-> StrictWidgetSchema]))
QueryParameter == Parameter("q", "query", TRUE)

\* Every operation needs the API key of the document-wide requirement, but
\* DELETE, which declares an empty list of its own.
PipeDoc ==
    Document(SecurityList(<<{"ApiKeyHeader"}>>), Schemes([ApiKeyHeader |-> ApiKeyHeader]),
        (Widgets :> [GET |-> Operation(NoSecurity, NoRequestBody, <<QueryParameter>>),
                     POST |-> Operation(NoSecurity, StrictBody(TRUE), <<QueryParameter>>)])
        @@ (WidgetById :> [GET |-> Operation(NoSecurity, NoRequestBody, IdParameter),
                           PUT |-> Operation(NoSecurity, StrictBody(FALSE),
                                             IdParameter \o <<QueryParameter>>),
                           DELETE |-> Operation(SecurityList(<< >>), NoRequestBody, IdParameter)]))

PipeFiles ==
    {MissingFile, WidgetsFile(<<[id |-> JNum(1), color |-> JStr(Red)]>>)}

Key == <<"k">>
TextPlain == <<"t", "e", "x", "t", "/", "p", "l", "a", "i", "n">>
\* application/json; charset=utf-8
JsonCharset ==
    AppJson \o <<";", " ", "c", "h", "a", "r", "s", "e", "t", "=", "u", "t", "f", "-", "8">>

PipeHeaders ==
    {h \in [{"X-Key", "Content-Type"} -> {<< >>, Key, AppJson, JsonCharset, TextPlain}] :
        /\ h["X-Key"] \in {<< >>, Key}
        /\ h["Content-Type"] \in {<< >>, AppJson, JsonCharset, TextPlain}}
PipeBodies ==
    {EmptyBody, InvalidBody, ObjectBody(<< >>),
     ObjectBody([color |-> JStr(Red)]), ObjectBody([color |-> JNum(5)])}
PipeTargets ==
    {[method |-> "GET", path |-> Widgets], [method |-> "POST", path |-> Widgets],
     [method |-> "GET", path |-> WidgetById], [method |-> "PUT", path |-> WidgetById],
     [method |-> "DELETE", path |-> WidgetById]}

\* Requests with and without the key, the query parameter, the path
\* parameter, a content type, and with every kind of body.
PipeRequests ==
    {Request(t.method, t.path, params, h, query, << >>, body) :
        t \in PipeTargets,
        params \in {<< >>, [id |-> <<"1">>]},
        h \in PipeHeaders,
        query \in {<< >>, [q |-> Key]},
        body \in PipeBodies}

PipeInit == \E f \in PipeFiles : Started(PipeDoc, f)

PipeNext ==
    \/ \E request \in PipeRequests : Arrive(1, request)
    \/ Handle(1)
    \/ startServer

PipeSpec == PipeInit /\ [][PipeNext]_vars

-----------------------------------------------------------------------------
(* The security stage on documents with every kind of security              *)
(* declaration, and requests with every kind of credential.                 *)

ApiKeyQuery == [Type |-> "apiKey", Scheme |-> << >>, In |-> "query", Name |-> "api_key"]
ApiKeyCookie == [Type |-> "apiKey", Scheme |-> << >>, In |-> "cookie", Name |-> "sid"]
BearerAuth ==
    [Type |-> "http", Scheme |-> <<"B", "e", "a", "r", "e", "r">>, In |-> "", Name |-> ""]
BasicAuth == [Type |-> "http", Scheme |-> <<"b", "a", "s", "i", "c">>, In |-> "", Name |-> ""]
OAuth == [Type |-> "oauth2", Scheme |-> << >>, In |-> "", Name |-> ""]

SecSchemes ==
    [ApiKeyHeader |-> ApiKeyHeader, ApiKeyQuery |-> ApiKeyQuery, ApiKeyCookie |-> ApiKeyCookie,
     BearerAuth |-> BearerAuth, BasicAuth |-> BasicAuth, OAuth |-> OAuth]

\* One security requirement: the scheme names it maps to scopes. Ghost is
\* declared nowhere.
Alternatives ==
    {{}, {"ApiKeyHeader"}, {"ApiKeyQuery"}, {"ApiKeyCookie"}, {"BearerAuth"}, {"BasicAuth"},
     {"OAuth"}, {"ApiKeyHeader", "BearerAuth"}, {"ApiKeyQuery", "ApiKeyCookie"}, {"Ghost"},
     {"ApiKeyHeader", "Ghost"}}

MaxAlternatives == 2
SecurityLists ==
    {NoSecurity} \cup
    {SecurityList(reqs) : reqs \in UNION {[1..n -> Alternatives] : n \in 0..MaxAlternatives}}
DocSecurityLists ==
    {NoSecurity, SecurityList(<< >>), SecurityList(<<{"ApiKeyHeader"}>>)}

NoComponents == [set |-> FALSE, SecuritySchemes |-> NoSchemes]
SecPaths(security) ==
    (Widgets :> [GET |-> Operation(security, NoRequestBody, << >>)])

\* Documents with and without a components section, with and without
\* security schemes in it.
SecDocs ==
    {Document(docSecurity, schemes, SecPaths(opSecurity)) :
        docSecurity \in DocSecurityLists,
        schemes \in {NoSchemes, Schemes(SecSchemes)},
        opSecurity \in SecurityLists}
    \cup
    {[Document(docSecurity, NoSchemes, SecPaths(opSecurity)) EXCEPT !.Components = NoComponents] :
        docSecurity \in DocSecurityLists,
        opSecurity \in SecurityLists}

Token == <<"t">>
Authorizations ==
    {<< >>, BearerUpper \o Token, BearerLower \o Token,
     <<"B", "E", "A", "R", "E", "R", " ">> \o Token,
     <<"B", "a", "s", "i", "c", " ">> \o Token}

SecRequests ==
    {Request("GET", Widgets, << >>,
             [h \in {"Authorization", "X-Key"} |-> IF h = "X-Key" THEN key ELSE auth],
             [api_key |-> apiKey], [sid |-> sid], EmptyBody) :
        auth \in Authorizations,
        key \in {<< >>, Key}, apiKey \in {<< >>, Key}, sid \in {<< >>, Key}}

SecInit == \E doc \in SecDocs : Started(doc, MissingFile)

SecNext ==
    \/ \E request \in SecRequests : Arrive(1, request)
    \/ Security(1)
    \/ startServer

SecSpec == SecInit /\ [][SecNext]_vars

-----------------------------------------------------------------------------
(* The body validator on schemas with every rule and every composition,     *)
(* and bodies with every kind of value.                                     *)

Ab == <<"a", "b">>
\* A string of two or three characters, of the enum ["ab"].
NameProp ==
    [Schema("string", << >>, << >>) EXCEPT !.MinLength = 2, !.MaxLength = 3, !.Enum = <<Ab>>]
NumberProp == Schema("number", << >>, << >>)
NullableProp == [Schema("string", << >>, << >>) EXCEPT !.Nullable = TRUE]
ArrayProp == [Schema("array", << >>, << >>) EXCEPT !.MinItems = 1]
BoolProp == Schema("boolean", << >>, << >>)
PropSchemas == {NameProp, NumberProp, NullableProp, ArrayProp, BoolProp}

Fields == {"a", "b"}
PropertyMaps == UNION {[names -> PropSchemas] : names \in SUBSET Fields}

\* Schemas without composition, with every rule on their properties.
FlatSchemas ==
    {Schema("object", required, properties) :
        required \in {<< >>, <<"a">>, <<"a", "b">>}, properties \in PropertyMaps}

\* The nodes that compositions are built from: two of them define and
\* require "a", with different definitions.
Leaves ==
    {Schema("object", <<"a">>, [a |-> NameProp]),
     Schema("object", <<"a", "b">>, [a |-> NumberProp]),
     Schema("object", <<"b">>, [b |-> NumberProp]),
     Schema("object", << >>, << >>)}

MaxBranches == 2
Branches(nodes, n) == UNION {[1..k -> nodes] : k \in 0..n}
Composed(own, allOf, oneOf, anyOf) ==
    [own EXCEPT !.AllOf = allOf, !.OneOf = oneOf, !.AnyOf = anyOf]

\* One kind of composition, up to MaxBranches branches.
OneKind(nodes, n) ==
    {Composed(own, b, << >>, << >>) : own \in Leaves, b \in Branches(nodes, n)}
    \cup {Composed(own, << >>, b, << >>) : own \in Leaves, b \in Branches(nodes, n)}
    \cup {Composed(own, << >>, << >>, b) : own \in Leaves, b \in Branches(nodes, n)}
\* All three kinds, one branch each.
AllKinds ==
    {Composed(own, <<x>>, <<y>>, <<z>>) : own \in Leaves, x \in Leaves, y \in Leaves, z \in Leaves}
\* Compositions of compositions.
Nested == OneKind(OneKind(Leaves, 1), 1)

ComposedSchemas == OneKind(Leaves, MaxBranches) \cup AllKinds \cup Nested

ValDoc(schema) ==
    Document(NoSecurity, NoSchemes,
        (Widgets :> [POST |-> Operation(NoSecurity,
                                        RequestBody(TRUE, (AppJson :> [set |-> TRUE, schema |-> schema])),
                                        << >>)]))

\* Field values: strings too short, right, long but not of the enum and too
\* long, a number, null, arrays without and with an item.
ValValues ==
    {JStr(<<"a">>), JStr(Ab), JStr(<<"a", "b", "c">>), JStr(<<"a", "b", "c", "d">>),
     JNum(1), JNull, JArray(0), JArray(1)}
Objects(values) == UNION {[names -> values] : names \in SUBSET Fields}
ValRequest(body) == Request("POST", Widgets, << >>, JsonHeader, << >>, << >>, body)

RuleRequests ==
    {ValRequest(InvalidBody)} \cup {ValRequest(ObjectBody(obj)) : obj \in Objects(ValValues)}
ComposeRequests ==
    {ValRequest(ObjectBody(obj)) : obj \in Objects({JStr(Ab), JNum(1)})}

\* The first two stages of handle for the request of slot 1.
Validate(requests) ==
    \/ \E request \in requests : Arrive(1, request)
    \/ Security(1)
    \/ Body(1)
    \/ startServer

RuleInit == \E schema \in FlatSchemas : Started(ValDoc(schema), MissingFile)
RuleNext == Validate(RuleRequests)
RuleSpec == RuleInit /\ [][RuleNext]_vars

ComposeInit == \E schema \in ComposedSchemas : Started(ValDoc(schema), MissingFile)
ComposeNext == Validate(ComposeRequests)
ComposeSpec == ComposeInit /\ [][ComposeNext]_vars

-----------------------------------------------------------------------------
(* The parameter stage on operations with every kind of parameter list.     *)

DeclaredParameters ==
    {Parameter("q", "query", TRUE), Parameter("q", "query", FALSE),
     Parameter("id", "path", TRUE), Parameter("X-Trace", "header", TRUE),
     Parameter("sid", "cookie", TRUE)}

MaxParams == 2
ParameterLists == UNION {[1..n -> DeclaredParameters] : n \in 0..MaxParams}

ParamDoc(parameters) ==
    Document(NoSecurity, NoSchemes,
        (WidgetById :> [GET |-> Operation(NoSecurity, NoRequestBody, parameters)]))

\* Requests with and without a value in each of the four locations.
ParamRequests ==
    {Request("GET", WidgetById, params, header, query, cookie, EmptyBody) :
        params \in {<< >>, [id |-> <<"1">>]},
        header \in {<< >>, ("X-Trace" :> Key)},
        query \in {<< >>, [q |-> Key]},
        cookie \in {<< >>, [sid |-> Key]}}

ParamInit ==
    \E parameters \in ParameterLists :
        Started(ParamDoc(parameters), WidgetsFile(<<[id |-> JNum(1), color |-> JStr(Red)]>>))

ParamNext ==
    \/ \E request \in ParamRequests : Arrive(1, request)
    \/ Security(1)
    \/ Body(1)
    \/ Parameters(1)
    \/ Lock(1)
    \/ Get(1)
    \/ Return(1)
    \/ startServer

ParamSpec == ParamInit /\ [][ParamNext]_vars

-----------------------------------------------------------------------------
(* Startup on every kind of storage file, then requests one at a time.      *)

StartFiles ==
    {MissingFile, CorruptFile, NullFile,
     WidgetsFile(<<[id |-> JNum(1), color |-> JStr(Red)]>>),
     PartialFile([widgets |-> <<[id |-> JNum(1), color |-> JStr(Red)]>>], {"users"}),
     PartialFile(<< >>, {"widgets"})}

StartInit == \E f \in StartFiles : Started(CrudDoc, f)

StartNext ==
    \/ \E request \in CrudRequests : Arrive(1, request)
    \/ Handle(1)
    \/ startServer

StartSpec == StartInit /\ [][StartNext]_vars

-----------------------------------------------------------------------------
(* Updates, deletes and creates with every kind of body, one at a time.     *)

Size == JNum(5)
UpdateBodies ==
    {ObjectBody(<< >>), ObjectBody([color |-> JStr(Blue)]), ObjectBody([size |-> Size]),
     ObjectBody([id |-> JNum(2)]), ObjectBody([id |-> JStr(Blue), color |-> JStr(Blue)])}
\* Identifiers of records the files hold, of a record none holds, and one
\* that is no number.
UpdateIds == {<<"1">>, <<"2">>, <<"3">>, NotANumber}

UpdateRequests ==
    {Request("GET", Widgets, << >>, << >>, << >>, << >>, EmptyBody),
     Request("POST", Widgets, << >>, JsonHeader, << >>, << >>, ObjectBody([color |-> JStr(Red)])),
     Request("POST", Widgets, << >>, JsonHeader, << >>, << >>,
             ObjectBody([id |-> JNum(1), color |-> JStr(Red)]))}
    \cup {ById("GET", id, << >>, EmptyBody) : id \in UpdateIds}
    \cup {ById("DELETE", id, << >>, EmptyBody) : id \in UpdateIds}
    \cup {ById(method, id, JsonHeader, body) :
             method \in {"PUT", "PATCH"}, id \in UpdateIds, body \in UpdateBodies}

UpdateInit == \E f \in Files : Started(CrudDoc, f)

UpdateNext ==
    \/ \E request \in UpdateRequests : Arrive(1, request)
    \/ Handle(1)
    \/ startServer

UpdateSpec == UpdateInit /\ [][UpdateNext]_vars

-----------------------------------------------------------------------------
(* Properties of the store.                                                 *)

\* A goroutine is in the store section from store.mu.Lock() to the deferred Unlock.
InStoreSection(r) == pc[r] \in {"mock", "save", "parked", "return"}
Mutating(r) == req[r].method \in {"POST", "PUT", "PATCH", "DELETE"}
IdNumbers(list) == {list[i]["id"].n : i \in 1..Len(list)}

\* C1: no two records of a resource's list carry the same id, after any
\* sequence of create, update and delete requests on a table loaded with
\* unique ids.
C1_UniqueIds ==
    \A res \in DOMAIN Data :
        \A i, j \in 1..Len(Data[res]) :
            i # j => Data[res][i]["id"].n # Data[res][j]["id"].n

\* C2: the store never deadlocks: a request that has passed validation and has
\* not returned can take its next step, or waits for the mutex while the
\* goroutine holding it can take its next step.
C2_NeverDeadlocks ==
    \A r \in Requests :
        (running /\ pc[r] \in {"lock", "mock", "save", "parked", "return"}) =>
            \/ ENABLED <<Handle(r)>>_vars
            \/ pc[r] = "lock" /\ mu # 0 /\ ENABLED <<Handle(mu)>>_vars

\* The goroutine of request r can take a step that changes the state.
CanStep(r) == ENABLED <<Handle(r)>>_vars

Created(r) == pc[r] \in {"save", "parked", "return", "done"}
AllCreatesOnEmpty == onlyCreates /\ \A r \in Requests : pc[r] # "idle"
C4_ConcurrentCreates ==
    AllCreatesOnEmpty =>
        /\ (\A r \in Requests : pc[r] = "done") \/ (\E r \in Requests : CanStep(r))
        /\ \A r \in Requests :
              Created(r) =>
                  /\ resp[r].status = 201
                  /\ resp[r].item["id"].n \in 1..Len(Data["widgets"])
                  /\ Data["widgets"][resp[r].item["id"].n] = resp[r].item
        /\ (\A r \in Requests : pc[r] = "done") =>
              {resp[r].item["id"].n : r \in Requests} = 1..MaxReq

\* C5: at most one request at a time is inside the store section, and it is
\* the one that holds the mutex: from its first read of the table to its
\* return no other request is at a step that reads or writes the table or the
\* storage file.
C5_StoreSectionExclusive ==
    \A r \in Requests :
        InStoreSection(r) =>
            /\ mu = r
            /\ \A q \in Requests \ {r} : ~InStoreSection(q)
\* A request is inside the store section, its mutation applied, while another
\* one that passed validation waits for the mutex.
C5_Witness ==
    \E r, q \in Requests :
        /\ r # q
        /\ pc[r] \in {"save", "parked"}
        /\ pc[q] = "lock"

\* C6: the store round trip. A create is never stuck and returns 201 with the
\* submitted fields plus an integer id; a get-by-id with the id of a record of
\* the list returns that record; a get-by-id with an id no record carries (as
\* after its delete) returns not-found.
SubmittedFields(r) == BodyParser(req[r])
C6_RoundTrip ==
    \A r \in Requests :
        /\ (req[r].method = "POST" /\ Created(r)) =>
              /\ pc[r] = "done" \/ CanStep(r)
              /\ resp[r].status = 201
              /\ resp[r].item["id"].t = "int"
              /\ \A k \in DOMAIN SubmittedFields(r) \ {"id"} :
                    k \in DOMAIN resp[r].item /\ resp[r].item[k] = SubmittedFields(r)[k]
        /\ (req[r].method = "GET" /\ pc[r] = "return" /\ req[r].path = WidgetById) =>
              LET id == Atoi(Params(req[r], "id")) IN
                /\ (id > 0 /\ id \in IdNumbers(Data["widgets"])) =>
                      /\ resp[r].status = 200
                      /\ resp[r].item["id"].n = id
                      /\ \E i \in 1..Len(Data["widgets"]) : Data["widgets"][i] = resp[r].item
                /\ (id > 0 /\ id \notin IdNumbers(Data["widgets"])) => resp[r].status = 404

-----------------------------------------------------------------------------
(* Properties of the validation pipeline.                                   *)

Validating(r) == pc[r] \in {"security", "body", "params"}
Validated(r) == pc[r] \in {"lock", "mock", "save", "parked", "return", "done"}
Rejected(r) == pc[r] = "done" /\ resp[r].status \in {401, 415, 400}
RejectedBy(r, outcome, stages) ==
    /\ pc[r] = "done"
    /\ resp[r] = Rejection(outcome)
    /\ trace[r] = stages

\* C7: the stages run in the order security, body (POST, PUT, PATCH only),
\* parameters; the first stage that fails decides the response, whatever the
\* later stages would have said, and a request is at the store only after
\* all three stages passed.
C7_StageOrder ==
    \A r \in Requests :
        LET security == securityStage(openapiDoc, req[r], operationOf(r))
            body == bodyStage(req[r], operationOf(r))
            parameters == paramStage(req[r], operationOf(r))
        IN /\ pc[r] = "body" => security.status = 0 /\ trace[r] = <<"security">>
           /\ pc[r] = "params" =>
                 /\ security.status = 0 /\ body.status = 0
                 /\ trace[r] = <<"security", "body">>
           /\ Validated(r) =>
                 IF security.status # 0
                 THEN security.status = 401 /\ RejectedBy(r, security, <<"security">>)
                 ELSE IF body.status # 0
                 THEN /\ RejectedBy(r, body, <<"security", "body">>)
                      /\ req[r].method \in {"POST", "PUT", "PATCH"}
                 ELSE IF parameters.status # 0
                 THEN RejectedBy(r, parameters, <<"security", "body", "params">>)
                 ELSE /\ Len(trace[r]) >= 3
                      /\ SubSeq(trace[r], 1, 3) = <<"security", "body", "params">>
                      /\ Len(trace[r]) > 3 => trace[r][4] = "lock"
           /\ (pc[r] = "lock" \/ InStoreSection(r)) =>
                 security.status = 0 /\ body.status = 0 /\ parameters.status = 0

\* A request without the key, with a body that fails and without a required
\* parameter was answered 401.
C7_Witness ==
    /\ pc[1] = "done"
    /\ resp[1].status = 401
    /\ bodyStage(req[1], operationOf(1)).status # 0
    /\ paramStage(req[1], operationOf(1)).status # 0

\* C8: a request rejected by a validation stage has gone through validation
\* stages only, never through the lock, and no validation step changes the
\* table, the storage file or the mutex.
C8_RejectionLeavesStore ==
    /\ [](\A r \in Requests :
            Rejected(r) =>
                \A i \in 1..Len(trace[r]) : trace[r][i] \in {"security", "body", "params"})
    /\ [][\A r \in Requests :
            (Validating(r) /\ pc'[r] \notin {pc[r], "idle"}) =>
                UNCHANGED <<Data, file, mu>>]_vars

\* A create was rejected for its content type while the table holds a record.
C8_Witness ==
    /\ Rejected(1)
    /\ resp[1].status = 415
    /\ req[1].method = "POST"
    /\ Len(Data["widgets"]) > 0

-----------------------------------------------------------------------------
(* Properties of the security stage.                                        *)

PastSecurity(r) == pc[r] \notin {"idle", "security"}

\* The list the claim calls effective: the operation's when it declares one,
\* else the document's.
EffectiveSecurity(r) ==
    LET own == operationOf(r).op.Security IN
    IF own.set THEN own ELSE openapiDoc.Security

\* C9: the effective requirement list is the operation's own list whenever it
\* declares one, even an empty one, and the document's list only otherwise;
\* a request is answered 401 exactly when that list is not empty and is not
\* satisfied, so never when it is absent or empty.
C9_EffectiveSecurity ==
    \A r \in Requests :
        PastSecurity(r) =>
            LET effective == EffectiveSecurity(r)
                checked == effective.set /\ Len(effective.reqs) > 0
            IN /\ resp[r].status = 401 <=>
                      (checked /\ ~isAuthenticated(openapiDoc, req[r], effective.reqs))
               /\ ~checked => pc[r] = "body" /\ resp[r] = NoResponse

\* The operation's empty list let a request without credentials through,
\* though the document's list asks for a key.
C9_Witness ==
    /\ pc[1] = "body"
    /\ operationOf(1).op.Security = SecurityList(<< >>)
    /\ openapiDoc.Security = SecurityList(<<{"ApiKeyHeader"}>>)
    /\ openapiDoc.Components.SecuritySchemes.set
    /\ GetHeader(req[1], "X-Key") = << >>
    /\ GetHeader(req[1], "Authorization") # << >>

\* The schemes the document declares: none without a components section or
\* without securitySchemes in it.
Declared ==
    IF openapiDoc.Components.set /\ openapiDoc.Components.SecuritySchemes.set
    THEN openapiDoc.Components.SecuritySchemes.m
    ELSE << >>

\* A scheme individually satisfied: declared, and for an apiKey scheme a
\* non-empty value of the named field in the declared location.
Satisfied(r, schemeName) ==
    /\ schemeName \in DOMAIN Declared
    /\ LET scheme == Declared[schemeName] IN
         IF scheme.Type = "apiKey"
         THEN \/ scheme.In = "header" /\ GetHeader(req[r], scheme.Name) # << >>
              \/ scheme.In = "query" /\ Query(req[r], scheme.Name) # << >>
              \/ scheme.In = "cookie" /\ Cookies(req[r], scheme.Name) # << >>
         ELSE schemeSatisfied(req[r], scheme)

\* C10: with a non-empty effective list, the security stage lets a request
\* through if and only if some alternative of the list has every scheme it
\* names satisfied.
C10_AnyOfAll ==
    \A r \in Requests :
        (PastSecurity(r) /\ Len(resolveSecurityRequirements(openapiDoc, operationOf(r)).reqs) > 0) =>
            LET reqs == resolveSecurityRequirements(openapiDoc, operationOf(r)).reqs IN
            (resp[r].status # 401) <=>
                \E i \in 1..Len(reqs) : \A schemeName \in reqs[i] : Satisfied(r, schemeName)

\* C11: when the effective requirement list holds an empty requirement, the
\* request passes the security stage, whatever its credentials and whatever
\* schemes the document declares.
C11_EmptyRequirementPasses ==
    \A r \in Requests :
        LET effective == EffectiveSecurity(r) IN
        (PastSecurity(r) /\ effective.set /\ \E i \in 1..Len(effective.reqs) : effective.reqs[i] = {})
            => pc[r] = "body" /\ resp[r].status # 401

-----------------------------------------------------------------------------
(* Properties of the body stage.                                            *)

PastBody(r) == pc[r] \notin {"idle", "security", "body"} /\ Len(trace[r]) >= 2
RejectedAtBody(r, status, message) ==
    /\ pc[r] = "done"
    /\ trace[r] = <<"security", "body">>
    /\ resp[r] = ErrorResponse(status, message)
PassedBody(r) == Len(trace[r]) >= 3 \/ pc[r] = "params"

\* C12: on a POST, PUT or PATCH whose operation declares a request body, in
\* this order: a required body of zero bytes is rejected 400; a non-empty
\* body without Content-Type is rejected 415; a non-empty body whose base
\* media type is no key of the mapping is rejected 415; the schema is
\* checked only then; an empty body that is not required goes on to the
\* parameter stage.
C12_BodyStageOrder ==
    \A r \in Requests :
        (/\ PastBody(r)
         /\ req[r].method \in {"POST", "PUT", "PATCH"}
         /\ operationOf(r).set /\ operationOf(r).op.RequestBody.set) =>
            LET rb == operationOf(r).op.RequestBody
                empty == req[r].body.kind = "empty"
                ct == GetHeader(req[r], "Content-Type")
                base == TrimSpace(BeforeSemicolon(ct))
            IN IF empty
               THEN IF rb.Required
                    THEN RejectedAtBody(r, 400, "Body parameter is required")
                    ELSE PassedBody(r)
               ELSE IF ~rb.Content.set THEN PassedBody(r)
               ELSE IF ct = << >>
               THEN RejectedAtBody(r, 415, "Content-Type header is required")
               ELSE IF base \notin DOMAIN rb.Content.m
               THEN RejectedAtBody(r, 415, "Unsupported media type")
               ELSE IF NumViolations(validateBody(req[r].body, rb.Content.m[base].schema)) > 0
               THEN RejectedAtBody(r, 400, "violations")
               ELSE PassedBody(r)

\* A body that breaks the schema, sent with a charset parameter after the
\* media type, was rejected for the schema and not for the media type.
C12_Witness ==
    /\ RejectedAtBody(1, 400, "violations")
    /\ GetHeader(req[1], "Content-Type") = JsonCharset

-----------------------------------------------------------------------------
(* Properties of the body validator.                                        *)

schemaOf(r) == operationOf(r).op.RequestBody.Content.m[AppJson].schema
Range(seq) == {seq[i] : i \in 1..Len(seq)}

\* The rules of one property in the order they are checked; a null value has
\* the null rule only.
Rules(val, prop) ==
    IF val.t = "nil" THEN <<[msg |-> "must not be null", broken |-> ~prop.Nullable]>>
    ELSE CASE prop.Type = "string" ->
                <<[msg |-> "must be a string", broken |-> val.t # "string"],
                  [msg |-> "must be at least MinLength characters",
                   broken |-> prop.MinLength > 0 /\ Len(val.s) < prop.MinLength],
                  [msg |-> "must be at most MaxLength characters",
                   broken |-> prop.MaxLength # -1 /\ Len(val.s) > prop.MaxLength],
                  [msg |-> "must be one of Enum",
                   broken |-> prop.Enum # << >> /\ val.s \notin Range(prop.Enum)]>>
           [] prop.Type \in {"integer", "number"} ->
                <<[msg |-> "must be a number", broken |-> val.t # "float64"]>>
           [] prop.Type = "boolean" ->
                <<[msg |-> "must be a boolean", broken |-> val.t # "bool"]>>
           [] prop.Type = "array" ->
                <<[msg |-> "must be an array", broken |-> val.t # "array"],
                  [msg |-> "must have at least MinItems items",
                   broken |-> prop.MinItems > 0 /\ val.n < prop.MinItems]>>
           [] OTHER -> << >>
FirstBroken(val, prop) ==
    LET rules == Rules(val, prop)
        broken == {i \in 1..Len(rules) : rules[i].broken}
    IN IF broken = {} THEN ""
       ELSE rules[CHOOSE i \in broken : \A j \in broken : i <= j].msg

\* C13: on a body that decodes, validateBody reports every required field the
\* body lacks and, for every declared property the body holds and that breaks
\* a rule, exactly one violation, that of the first rule it breaks; it reports
\* nothing iff no field is lacking and no property breaks a rule, and the
\* request is rejected with the violations exactly then.
C13_AllViolations ==
    \A r \in Requests :
        (PastBody(r) /\ req[r].body.kind = "object") =>
            LET result == validateBody(req[r].body, schemaOf(r))
                resolved == collectSchemaConstraints(schemaOf(r))
                body == UnmarshalRecord(req[r].body.obj)
                absent == {field \in Range(resolved.required) : field \notin DOMAIN body}
                failing == {name \in DOMAIN resolved.props \cap DOMAIN body :
                               FirstBroken(body[name], resolved.props[name]) # ""}
            IN /\ ~result.invalid
               /\ Range(result.missing) = absent
               /\ {v.name : v \in result.failed} = failing
               /\ Cardinality(result.failed) = Cardinality(failing)
               /\ \A v \in result.failed :
                     v.msg = FirstBroken(body[v.name], resolved.props[v.name])
               /\ NumViolations(result) = 0 <=> (absent = {} /\ failing = {})
               /\ RejectedAtBody(r, 400, "violations") <=> (absent # {} \/ failing # {})

\* A body without the required "b" and with a string "a" that is too long
\* was rejected for both.
C13_Witness ==
    /\ RejectedAtBody(1, 400, "violations")
    /\ req[1].body.kind = "object"
    /\ LET result == validateBody(req[1].body, schemaOf(1)) IN
         /\ "b" \in Range(result.missing)
         /\ [name |-> "a", msg |-> "must be at most MaxLength characters"] \in result.failed

-----------------------------------------------------------------------------
(* Properties of the constraint resolver.                                   *)

\* C14: the resolved required list names no field twice, so a body lacking a
\* required field gets exactly one violation for it.
C14_RequiredOnce ==
    \A r \in Requests :
        PastBody(r) =>
            LET required == collectSchemaConstraints(schemaOf(r)).required
                missing == validateBody(req[r].body, schemaOf(r)).missing
            IN /\ \A i, j \in 1..Len(required) : required[i] = required[j] => i = j
               /\ \A i, j \in 1..Len(missing) : missing[i] = missing[j] => i = j

\* Every node of a schema: the schema and the nodes of all its branches.
RECURSIVE Nodes(_)
Nodes(schema) ==
    {schema} \cup UNION {Nodes(branch) : branch \in Range(schema.AllOf \o schema.OneOf \o schema.AnyOf)}

\* The nodes whose obligations all apply: the schema and, through allOf
\* only, its branches and theirs.
RECURSIVE AllOfNodes(_)
AllOfNodes(schema) ==
    {schema} \cup UNION {AllOfNodes(branch) : branch \in Range(schema.AllOf)}

\* C15: for every schema with allOf branches, at any depth, the resolved
\* required fields hold its own and those resolved for every allOf branch,
\* and the resolved properties hold every property name of the schema and of
\* every allOf branch, however deep; a body that lacks one of these required
\* fields is rejected.
C15_AllOfUnion ==
    \A r \in Requests :
        PastBody(r) =>
            /\ \A S \in Nodes(schemaOf(r)) :
                  LET resolved == collectSchemaConstraints(S) IN
                  /\ Range(S.Required) \subseteq Range(resolved.required)
                  /\ DOMAIN S.Properties \subseteq DOMAIN resolved.props
                  /\ \A branch \in Range(S.AllOf) :
                        /\ Range(collectSchemaConstraints(branch).required)
                               \subseteq Range(resolved.required)
                        /\ DOMAIN collectSchemaConstraints(branch).props
                               \subseteq DOMAIN resolved.props
                  /\ \A node \in AllOfNodes(S) :
                        /\ Range(node.Required) \subseteq Range(resolved.required)
                        /\ DOMAIN node.Properties \subseteq DOMAIN resolved.props
            /\ (/\ req[r].body.kind = "object"
                /\ \E node \in AllOfNodes(schemaOf(r)) :
                      \E field \in Range(node.Required) : field \notin DOMAIN req[r].body.obj)
                   => RejectedAtBody(r, 400, "violations")

\* A body without "b" was rejected though only an allOf branch of an allOf
\* branch requires "b".
C15_Witness ==
    /\ RejectedAtBody(1, 400, "violations")
    /\ req[1].body = ObjectBody([a |-> JStr(Ab)])
    /\ LET S == schemaOf(1) IN
         /\ "b" \notin Range(S.Required)
         /\ Len(S.AllOf) = 1
         /\ "b" \notin Range(S.AllOf[1].Required)
         /\ Len(S.AllOf[1].AllOf) = 1
         /\ "b" \in Range(S.AllOf[1].AllOf[1].Required)

\* What oneOf and anyOf branches are merged into: the schema without them.
WithoutAlternatives(S) == [S EXCEPT !.OneOf = << >>, !.AnyOf = << >>]
Alternative(S) == S.OneOf \o S.AnyOf
HasAlternatives(S) == Alternative(S) # << >>

\* The first definition of a name among the branches, in the order oneOf
\* then anyOf.
FirstDefinition(S, name) ==
    LET branches == Alternative(S)
        defining == {i \in 1..Len(branches) :
                        name \in DOMAIN collectSchemaConstraints(branches[i]).props}
        first == CHOOSE i \in defining : \A j \in defining : i <= j
    IN collectSchemaConstraints(branches[first]).props[name]

\* On a name clash the definition already present is kept; a free name takes
\* the definition of the first branch that has it; no name is lost.
FirstWriterWins(S) ==
    LET resolved == collectSchemaConstraints(S)
        present == collectSchemaConstraints(WithoutAlternatives(S)).props
        offered == UNION {DOMAIN collectSchemaConstraints(branch).props :
                             branch \in Range(Alternative(S))}
    IN /\ DOMAIN resolved.props = DOMAIN present \cup offered
       /\ \A name \in DOMAIN present : resolved.props[name] = present[name]
       /\ \A name \in offered \ DOMAIN present :
             resolved.props[name] = FirstDefinition(S, name)

\* C16 as stated: for every schema with oneOf or anyOf branches the resolved
\* required fields are the schema's own required fields and nothing else, and
\* the branch properties are merged first writer wins.
C16_OwnRequiredOnly ==
    \A r \in Requests :
        PastBody(r) =>
            \A S \in Nodes(schemaOf(r)) :
                HasAlternatives(S) =>
                    /\ Range(collectSchemaConstraints(S).required) = Range(S.Required)
                    /\ FirstWriterWins(S)

\* C16 amended: for every schema with oneOf or anyOf branches, at any depth,
\* the resolved required fields are those of the schema and of its allOf
\* branches (and theirs), and of no oneOf or anyOf branch: exactly the
\* schema's own when it has no allOf branch; the branch properties are merged
\* first writer wins; a body holding every such required field has no missing
\* field reported.
C16_NoAlternativeRequired ==
    \A r \in Requests :
        PastBody(r) =>
            /\ \A S \in Nodes(schemaOf(r)) :
                  HasAlternatives(S) =>
                      /\ Range(collectSchemaConstraints(S).required)
                             = UNION {Range(node.Required) : node \in AllOfNodes(S)}
                      /\ S.AllOf = << >> =>
                             collectSchemaConstraints(S).required = S.Required
                      /\ FirstWriterWins(S)
            /\ (/\ HasAlternatives(schemaOf(r))
                /\ \A node \in AllOfNodes(schemaOf(r)) :
                      Range(node.Required) \subseteq DOMAIN req[r].body.obj)
                   => validateBody(req[r].body, schemaOf(r)).missing = << >>

\* A body without "b" was not reported to lack "b", which only a oneOf
\* branch requires, and its number "a" was rejected as the schema's own
\* string "a", not accepted as the branch's number "a".
C16_Witness ==
    /\ RejectedAtBody(1, 400, "violations")
    /\ req[1].body = ObjectBody([a |-> JNum(1)])
    /\ LET S == schemaOf(1) IN
         /\ S.Required = <<"a">>
         /\ S.Properties = [a |-> NameProp]
         /\ S.AllOf = << >>
         /\ S.OneOf = <<Schema("object", <<"a", "b">>, [a |-> NumberProp])>>
         /\ validateBody(req[1].body, S) =
                [invalid |-> FALSE, missing |-> << >>,
                 failed |-> {[name |-> "a", msg |-> "must be a string"]}]

-----------------------------------------------------------------------------
(* Properties of the parameter stage.                                       *)

\* The value a request carries for a parameter in the location the
\* parameter declares.
DeclaredValue(r, p) ==
    CASE p.In = "query" -> Query(req[r], p.Name)
      [] p.In = "path" -> Params(req[r], p.Name)
      [] p.In = "header" -> GetHeader(req[r], p.Name)
      [] p.In = "cookie" -> Cookies(req[r], p.Name)

PastParameters(r) ==
    /\ pc[r] \notin {"idle", "security", "body", "params"}
    /\ Len(trace[r]) >= 3
AtStore(r) == pc[r] = "lock" \/ Len(trace[r]) >= 4

-----------------------------------------------------------------------------
(* Properties of the store operations.                                      *)

\* The text of an identifier spells the number n.
Spells(text, n) ==
    /\ text # << >>
    /\ \A i \in 1..Len(text) : IsDigit(text[i])
    /\ DecimalValue(text, 0) = n
ByIdRoute(r) == req[r].path = WidgetById
Matches(r, list) ==
    {i \in 1..Len(list) : "id" \in DOMAIN list[i] /\ Spells(Params(req[r], "id"), list[i]["id"].n)}

\* C18: a GET on a by-id route whose identifier is the id of no record of the
\* resource, be it a number no record has or no number at all, returns
\* not-found: no record and not the list.
C18_UnknownIdNotFound ==
    \A r \in Requests :
        (/\ pc[r] = "return"
         /\ req[r].method = "GET"
         /\ ByIdRoute(r)
         /\ Matches(r, ListOf(Data, resourceOf(r))) = {})
            => resp[r] = ErrorResponse(404, "Not Found")

\* The outcomes of a request: success, unauthorized, unsupported media
\* type, bad request, not found, not implemented.
Outcomes == {200, 201, 204, 401, 415, 400, 404, 501}

\* C19: the process keeps running and every request ends in one of the
\* per-request outcomes: none ends in a panic of its handler, and none is
\* left in the handler without an outcome and without a step to take.
C19_EveryRequestAnswered ==
    /\ running
    /\ \A r \in Requests :
          /\ resp[r] # Panicked
          /\ pc[r] = "done" => resp[r].status \in Outcomes
          /\ pc[r] \in {"mock", "save", "parked", "return"} => CanStep(r)

-----------------------------------------------------------------------------
(* Properties of startup.                                                   *)

JustStarted == \A r \in Requests : pc[r] = "idle"
\* The file is missing or does not decode into a table: no JSON, JSON that
\* is no object, or an object with a member that is no list of objects.
NoTableInFile == file.kind \in {"missing", "corrupt", "null"} \/ file.bad # {}

\* C20: started on a storage file that is missing or does not decode into a
\* resource table, the server runs (no fatal error up to and through route
\* registration) on an empty table in which every resource of the document
\* reads as an empty list.
C20_StartsEmpty ==
    (JustStarted /\ NoTableInFile) =>
        /\ running
        /\ \A path \in DOMAIN openapiDoc.Paths : ResourceOf(path) \in DOMAIN Data
        /\ \A res \in DOMAIN Data : Data[res] = << >>

-----------------------------------------------------------------------------
(* Properties of update and delete.                                         *)

\* The step of handle between taking the mutex and saving or returning.
StoreStep(r) == pc[r] = "mock" /\ pc'[r] \in {"save", "return"}
Submitted(r) == IF req[r].body.kind = "object" THEN UnmarshalRecord(req[r].body.obj) ELSE << >>
\* The old record overridden with the submitted fields.
Override(old, fields) ==
    [k \in DOMAIN old \cup DOMAIN fields |-> IF k \in DOMAIN fields THEN fields[k] ELSE old[k]]
Without(list, i) == [j \in 1..(Len(list) - 1) |-> IF j < i THEN list[j] ELSE list[j + 1]]

\* C21: an update of an id the resource holds replaces that record by the
\* old record overridden with the submitted fields and changes nothing else
\* of the list; an update or delete of an id the resource does not hold
\* returns not-found and leaves table and file as they are; a delete of an
\* id the resource holds removes that one record and keeps the others in
\* their order.
C21_UpdateAndDelete ==
    [][\A r \in Requests :
          (StoreStep(r) /\ ByIdRoute(r) /\ req[r].method \in {"PUT", "PATCH", "DELETE"}) =>
              LET list == ListOf(Data, resourceOf(r))
                  after == ListOf(Data', resourceOf(r))
                  held == Matches(r, list)
              IN /\ \A res \in DOMAIN Data \ {resourceOf(r)} : Data'[res] = Data[res]
                 /\ IF held = {}
                    THEN /\ resp'[r] = ErrorResponse(404, "Not Found")
                         /\ pc'[r] = "return"
                         /\ Data' = Data
                         /\ file' = file
                    ELSE IF req[r].method = "DELETE"
                    THEN \E i \in held : after = Without(list, i)
                    ELSE \E i \in held :
                            /\ Len(after) = Len(list)
                            /\ after[i] = Override(list[i], Submitted(r))
                            /\ \A j \in 1..Len(list) : j # i => after[j] = list[j]]_vars

\* An update with a new key has changed the second of two records: the
\* record has the new key and its old ones, the first record is as it was.
C21_Witness ==
    /\ pc[1] = "save"
    /\ req[1].method = "PUT"
    /\ req[1].body = ObjectBody([size |-> Size])
    /\ Data["widgets"] = <<[id |-> Flt(1), color |-> Str(Red)],
                           [id |-> Flt(2), color |-> Str(Blue), size |-> Flt(5)]>>


\* C22: only a create assigns an id, and the id of a record never changes
\* afterwards: a create gives the new record the id len(list) + 1 whatever
\* id its body carries, and an update leaves the id of every record of the
\* list as it was.
C22_IdsAssignedOnce ==
    [][\A r \in Requests :
          StoreStep(r) =>
              LET list == ListOf(Data, resourceOf(r))
                  after == ListOf(Data', resourceOf(r))
              IN /\ req[r].method = "POST" =>
                        /\ Len(after) = Len(list) + 1
                        /\ after[Len(after)]["id"] = GoInt(Len(list) + 1)
                        /\ \A j \in 1..Len(list) : after[j] = list[j]
                 /\ req[r].method \in {"PUT", "PATCH"} =>
                        /\ Len(after) = Len(list)
                        /\ \A j \in 1..Len(list) : after[j]["id"] = list[j]["id"]]_vars


\* The first seven characters of the Authorization value spell "bearer "
\* in any mix of cases.
BearerPrefixAnyCase(auth) ==
    Len(auth) >= Len(BearerLower) /\ EqualFold(SubSeq(auth, 1, Len(BearerLower)), BearerLower)

\* C23: where the one scheme asked for is a declared http scheme with the
\* sub-kind bearer, the request passes the security stage if and only if its
\* Authorization value starts with "Bearer " compared without regard to
\* case; where it is an http scheme of another sub-kind, or an oauth2 or
\* openIdConnect scheme, if and only if the Authorization value is not empty.
C23_BearerAnyCase ==
    \A r \in Requests :
        PastSecurity(r) =>
            LET reqs == resolveSecurityRequirements(openapiDoc, operationOf(r)).reqs
                auth == GetHeader(req[r], "Authorization")
            IN \A schemeName \in DOMAIN Declared :
                   (/\ reqs = <<{schemeName}>>
                    /\ Declared[schemeName].Type # "apiKey") =>
                       ((resp[r].status # 401) <=>
                            IF /\ Declared[schemeName].Type = "http"
                               /\ EqualFold(Declared[schemeName].Scheme, bearer)
                            THEN BearerPrefixAnyCase(auth)
                            ELSE auth # << >>)

====
